---- MODULE Spec2Model ----
(***************************************************************************)
(* CSR KPI dashboard: the numeric cell extractor and the weighted score    *)
(* aggregators of quant_scoring_reckoner.py, test1.py and                  *)
(* pages/short_term_long_term.py.                                          *)
(*                                                                         *)
(* Text is a sequence of one-character strings.  A float is an exact       *)
(* rational <<n, d>> in lowest terms with d > 0; NaN is <<0, 0>>; Python's *)
(* None is <<>>.                                                           *)
(***************************************************************************)
EXTENDS Integers, Sequences, FiniteSets, TLC

VARIABLES
    pc,           \* where the run is
    obj,          \* extract_number_keep_none: its argument
    s,            \* extract_number_keep_none: the stripped text
    nums,         \* extract_number_keep_none: the matches of re.findall
    ret,          \* extract_number_keep_none: its result
    app,          \* which script runs
    sheet,        \* the rows of the sheet in source.xlsx
    missing,      \* the column the sheet lacks, or "none"
    df_main,      \* the loaded table (df in test1.py and the short-term page)
    selected,     \* the sidebar multiselects: column -> selected options
    filtered_df,  \* the rows handed to the aggregator
    calc          \* what the aggregator gave

vars == <<pc, obj, s, nums, ret, app, sheet, missing, df_main, selected,
          filtered_df, calc>>

extractVars == <<obj, s, nums, ret>>
pageVars == <<app, sheet, missing, df_main, selected, filtered_df, calc>>

(***************************************************************************)
(* Bounds.                                                                 *)
(***************************************************************************)
\* longest enumerated cell text
MaxLen == 4
\* most rows of the sheet
MaxRows == 2

(***************************************************************************)
(* Exact arithmetic standing for float arithmetic.                         *)
(***************************************************************************)
None == <<>>
NaN == <<0, 0>>

Abs(x) == IF x < 0 THEN -x ELSE x

RECURSIVE GCD(_, _)
GCD(a, b) == IF b = 0 THEN a ELSE GCD(b, a % b)

\* the float n/d, in lowest terms
Rat(n, d) ==
    IF d = 0 THEN NaN
    ELSE LET g == GCD(Abs(n), Abs(d))
             sg == IF d < 0 THEN -1 ELSE 1
         IN <<sg * (n \div g), sg * (d \div g)>>

IsNaN(x) == x = NaN
IsNum(x) == Len(x) = 2 /\ x[2] > 0

\* float arithmetic; NaN propagates
RAdd(x, y) ==
    IF IsNaN(x) \/ IsNaN(y) THEN NaN
    ELSE Rat(x[1] * y[2] + y[1] * x[2], x[2] * y[2])

\* a product rounded to a whole number as soon as it is computed
RMul_rounded(x, y) ==
    IF IsNaN(x) \/ IsNaN(y) THEN NaN
    ELSE LET p == Rat(x[1] * y[1], x[2] * y[2])
             q == p[1] \div p[2]
             r == p[1] - q * p[2]
         IN << IF 2 * r < p[2] THEN q
               ELSE IF 2 * r > p[2] THEN q + 1
               ELSE IF q % 2 = 0 THEN q ELSE q + 1, 1 >>

RMul(x, y) ==
    IF IsNaN(x) \/ IsNaN(y) THEN NaN ELSE Rat(x[1] * y[1], x[2] * y[2])

\* x / y for y # 0
RDiv(x, y) ==
    IF IsNaN(x) \/ IsNaN(y) THEN NaN ELSE Rat(x[1] * y[2], x[2] * y[1])

Zero == <<0, 1>>

\* bool(x) of a float: 0.0 is false, everything else (NaN too) is true
Truthy(x) == x # Zero

\* int(x) of a number: truncation toward zero
Trunc(x) ==
    IF x[1] >= 0 THEN x[1] \div x[2] ELSE -((-x[1]) \div x[2])

\* round(x) of a number: to the nearest integer, a tie to the even one
RoundHalfEven(x) ==
    LET q == x[1] \div x[2]
        r == x[1] - q * x[2]
    IN IF 2 * r < x[2] THEN q
       ELSE IF 2 * r > x[2] THEN q + 1
       ELSE IF q % 2 = 0 THEN q ELSE q + 1

\* round(x, 2); NaN stays NaN
Round2(x) ==
    IF IsNaN(x) THEN NaN ELSE Rat(RoundHalfEven(Rat(x[1] * 100, x[2])), 100)

RECURSIVE Pow10(_)
Pow10(k) == IF k = 0 THEN 1 ELSE 10 * Pow10(k - 1)

(***************************************************************************)
(* Characters and cells.                                                   *)
(***************************************************************************)
Digit == {"0", "1", "2", "3", "4", "5", "6", "7", "8", "9"}
Whitespace == {" ", "\t", "\n"}

DigitVal(c) ==
    CASE c = "0" -> 0 [] c = "1" -> 1 [] c = "2" -> 2 [] c = "3" -> 3
      [] c = "4" -> 4 [] c = "5" -> 5 [] c = "6" -> 6 [] c = "7" -> 7
      [] c = "8" -> 8 [] c = "9" -> 9

DigitChar(n) ==
    CASE n = 0 -> "0" [] n = 1 -> "1" [] n = 2 -> "2" [] n = 3 -> "3"
      [] n = 4 -> "4" [] n = 5 -> "5" [] n = 6 -> "6" [] n = 7 -> "7"
      [] n = 8 -> "8" [] n = 9 -> "9"

\* A spreadsheet cell as pandas hands it over: null (None / NaN), a Python
\* int, a float with one fractional digit (n tenths), or text.
Null == [kind |-> "null", n |-> 0, t |-> <<>>]
IntCell(n) == [kind |-> "int", n |-> n, t |-> <<>>]
FloatCell(tenths) == [kind |-> "float", n |-> tenths, t |-> <<>>]
Text(t) == [kind |-> "str", n |-> 0, t |-> t]

\* pd.isna(obj)
isna(o) == o.kind = "null"

RECURSIVE NatToStr(_)
NatToStr(n) ==
    IF n < 10 THEN <<DigitChar(n)>>
    ELSE NatToStr(n \div 10) \o <<DigitChar(n % 10)>>

\* str(obj)
str(o) ==
    CASE o.kind = "str" -> o.t
      [] o.kind = "int" ->
            (IF o.n < 0 THEN <<"-">> ELSE <<>>) \o NatToStr(Abs(o.n))
      [] o.kind = "float" ->
            (IF o.n < 0 THEN <<"-">> ELSE <<>>) \o NatToStr(Abs(o.n) \div 10)
                \o <<".", DigitChar(Abs(o.n) % 10)>>
      [] OTHER -> <<"n", "a", "n">>

RECURSIVE lstrip(_)
lstrip(t) == IF t # <<>> /\ Head(t) \in Whitespace THEN lstrip(Tail(t)) ELSE t

RECURSIVE rstrip(_)
rstrip(t) ==
    IF t # <<>> /\ t[Len(t)] \in Whitespace
    THEN rstrip(SubSeq(t, 1, Len(t) - 1)) ELSE t

\* str.strip()
strip(t) == rstrip(lstrip(t))

(***************************************************************************)
(* The regular expression of extract_number_keep_none:                     *)
(*   -?\d{1,3}(?:,\d{3})*(?:\.\d+)?  |  -?\d+\.\d+  |  -?\d+               *)
(* A match at position i is reported as the position after its last        *)
(* character; 0 means no match at i.                                       *)
(***************************************************************************)
IsDigitAt(t, i) == i >= 1 /\ i <= Len(t) /\ t[i] \in Digit
IsCharAt(t, i, c) == i >= 1 /\ i <= Len(t) /\ t[i] = c

\* greedy \d{0,max} at i: how many digits are taken
RECURSIVE CountDigits(_, _, _)
CountDigits(t, i, max) ==
    IF max > 0 /\ IsDigitAt(t, i) THEN 1 + CountDigits(t, i + 1, max - 1) ELSE 0

\* greedy (?:,\d{3})* at p: the position after the last group taken
RECURSIVE Groups(_, _)
Groups(t, p) ==
    IF IsCharAt(t, p, ",") /\ CountDigits(t, p + 1, 3) = 3
    THEN Groups(t, p + 4) ELSE p

\* greedy (?:\.\d+)? at p
Frac(t, p) ==
    IF IsCharAt(t, p, ".") /\ IsDigitAt(t, p + 1)
    THEN p + 1 + CountDigits(t, p + 1, Len(t)) ELSE p

\* -? at i: the sign is taken when present (and given back only when the
\* rest then fails, in which case a digit is demanded of the "-": no match)
AfterSign(t, i) == IF IsCharAt(t, i, "-") THEN i + 1 ELSE i

\* -?\d{1,3}(?:,\d{3})*(?:\.\d+)?
Alt1(t, i) ==
    LET p0 == AfterSign(t, i)
        n == CountDigits(t, p0, 3)
    IN IF n = 0 THEN 0 ELSE Frac(t, Groups(t, p0 + n))

\* -?\d+\.\d+   (\d+ gives digits back in vain: the "." must follow the run)
Alt2(t, i) ==
    LET p0 == AfterSign(t, i)
        n == CountDigits(t, p0, Len(t))
        p1 == p0 + n
    IN IF n > 0 /\ IsCharAt(t, p1, ".") /\ IsDigitAt(t, p1 + 1)
       THEN p1 + 1 + CountDigits(t, p1 + 1, Len(t)) ELSE 0

\* -?\d+
Alt3(t, i) ==
    LET p0 == AfterSign(t, i)
        n == CountDigits(t, p0, Len(t))
    IN IF n > 0 THEN p0 + n ELSE 0

\* the alternation at i: the first alternative that matches wins
Match(t, i) ==
    IF Alt1(t, i) # 0 THEN Alt1(t, i)
    ELSE IF Alt2(t, i) # 0 THEN Alt2(t, i)
    ELSE Alt3(t, i)

\* re.findall(pattern, t) from position i: the non-overlapping matches, left
\* to right
RECURSIVE findall_from(_, _)
findall_from(t, i) ==
    IF i > Len(t) THEN <<>>
    ELSE LET e == Match(t, i)
         IN IF e = 0 THEN findall_from(t, i + 1)
            ELSE <<SubSeq(t, i, e - 1)>> \o findall_from(t, e)

findall(t) == findall_from(t, 1)

\* tok.replace(',', '')
RECURSIVE replace_commas(_)
replace_commas(t) ==
    IF t = <<>> THEN <<>>
    ELSE (IF Head(t) = "," THEN <<>> ELSE <<Head(t)>>) \o replace_commas(Tail(t))

RECURSIVE DigitsToNat(_)
DigitsToNat(t) ==
    IF t = <<>> THEN 0
    ELSE 10 * DigitsToNat(SubSeq(t, 1, Len(t) - 1)) + DigitVal(t[Len(t)])

AllDigits(t) == \A k \in 1..Len(t) : t[k] \in Digit

\* float(t) for a decimal literal: [ok |-> FALSE] stands for ValueError
float(t) ==
    LET neg == t # <<>> /\ Head(t) = "-"
        u == IF neg THEN Tail(t) ELSE t
        dots == {k \in 1..Len(u) : u[k] = "."}
        dot == IF dots = {} THEN Len(u) + 1 ELSE CHOOSE k \in dots : TRUE
        ip == SubSeq(u, 1, dot - 1)
        fp == SubSeq(u, dot + 1, Len(u))
        wellformed == /\ Cardinality(dots) <= 1
                      /\ AllDigits(ip) /\ AllDigits(fp)
                      /\ Len(ip) + Len(fp) > 0
        mant == DigitsToNat(ip \o fp)
    IN IF wellformed
       THEN [ok |-> TRUE, v |-> Rat(IF neg THEN -mant ELSE mant, Pow10(Len(fp)))]
       ELSE [ok |-> FALSE, v |-> NaN]

\* extract_number_keep_none taking the first match instead of the last
extract_first_match(o) ==
    IF isna(o) THEN None
    ELSE LET found == findall(strip(str(o)))
         IN IF found = <<>> THEN None
            ELSE LET f == float(replace_commas(found[1]))
                 IN IF f.ok THEN f.v ELSE None

\* extract_number_keep_none testing the value's truth instead of the match
\* list: a zero is lost
extract_zero_as_none(o) ==
    IF isna(o) THEN None
    ELSE LET found == findall(strip(str(o)))
         IN IF found = <<>> THEN None
            ELSE LET f == float(replace_commas(found[Len(found)]))
                 IN IF f.ok /\ f.v[1] # 0 THEN f.v ELSE None

\* extract_number_keep_none(obj)
extract_number_keep_none(o) ==
    IF isna(o) THEN None
    ELSE LET found == findall(strip(str(o)))
         IN IF found = <<>> THEN None
            ELSE LET f == float(replace_commas(found[Len(found)]))
                 IN IF f.ok THEN f.v ELSE None

(***************************************************************************)
(* Cells the extractor is applied to.                                      *)
(***************************************************************************)
Alphabet == {"0", "1", "5", ",", ".", "-", "a", " "}

RECURSIVE TextsOfLen(_)
TextsOfLen(n) ==
    IF n = 0 THEN {<<>>}
    ELSE {Append(t, c) : t \in TextsOfLen(n - 1), c \in Alphabet}

Texts == UNION {TextsOfLen(n) : n \in 0..MaxLen}

\* the cells the specification names
ExampleTexts ==
    { <<"1", ",", "2", "3", "4">>,
      <<"1", ",", "2", "3", "4", ".", "5">>,
      <<"1", "2", "3", "4">>,
      <<"1", "2", "3", "4", ".", "5">>,
      <<"S", "c", "o", "r", "e", ":", " ", "-", "3">>,
      <<"v", "a", "l", ":", " ", "5", ",", " ", "f", "i", "n", "a", "l", ":",
        " ", "-", "2", ".", "5">>,
      <<"1", "2", " ", "o", "u", "t", " ", "o", "f", " ", "1", "0", "0", ",",
        " ", "f", "i", "n", "a", "l", ":", " ", "8", "7">>,
      <<"T", "a", "r", "g", "e", "t", ":", " ", "5", "0", ",", " ", "A", "c",
        "t", "u", "a", "l", ":", " ", "4", "2">> }

NumberCells ==
    {IntCell(n) : n \in {0, 7, -3, 42, 1234, 1500}}
        \cup {FloatCell(n) : n \in {0, 25, -25, 12340}}

Cells == {Null} \cup NumberCells \cup {Text(t) : t \in Texts \cup ExampleTexts}

(***************************************************************************)
(* One call of the extractor on an arbitrary cell.                         *)
(***************************************************************************)
InitExtract ==
    /\ pc = "extract"
    /\ obj \in Cells
    /\ s = <<>>
    /\ nums = <<>>
    /\ ret = None
    /\ app = "none"
    /\ sheet = <<>>
    /\ missing = "none"
    /\ df_main = <<>>
    /\ selected = <<>>
    /\ filtered_df = <<>>
    /\ calc = <<>>

ExtractCall ==
    /\ pc = "extract"
    /\ s' = (IF isna(obj) THEN <<>> ELSE strip(str(obj)))
    /\ nums' = (IF isna(obj) THEN <<>> ELSE findall(strip(str(obj))))
    /\ ret' = extract_number_keep_none(obj)
    /\ pc' = "extracted"
    /\ UNCHANGED <<obj, pageVars>>

NextExtract == ExtractCall

SpecExtract == InitExtract /\ [][NextExtract]_vars

(***************************************************************************)
(* Text normalisation of the loaders.                                      *)
(***************************************************************************)
LowerCase == <<"a", "b", "c", "d", "e", "f", "g", "h", "i", "j", "k", "l", "m",
               "n", "o", "p", "q", "r", "s", "t", "u", "v", "w", "x", "y", "z">>
UpperCase == <<"A", "B", "C", "D", "E", "F", "G", "H", "I", "J", "K", "L", "M",
               "N", "O", "P", "Q", "R", "S", "T", "U", "V", "W", "X", "Y", "Z">>

IsLower(c) == \E k \in 1..26 : LowerCase[k] = c
IsUpper(c) == \E k \in 1..26 : UpperCase[k] = c
ToUpper(c) == IF IsLower(c) THEN UpperCase[CHOOSE k \in 1..26 : LowerCase[k] = c] ELSE c
ToLower(c) == IF IsUpper(c) THEN LowerCase[CHOOSE k \in 1..26 : UpperCase[k] = c] ELSE c

\* str.upper()
upper(t) == [k \in 1..Len(t) |-> ToUpper(t[k])]

\* str.title(): a letter after a non-letter is upper-cased, any other lower-cased
title(t) ==
    [k \in 1..Len(t) |->
        IF k = 1 \/ ~(IsLower(t[k - 1]) \/ IsUpper(t[k - 1]))
        THEN ToUpper(t[k]) ELSE ToLower(t[k])]

(***************************************************************************)
(* Sheets.  A sheet row gives a cell for each column; the column named by  *)
(* `missing` is not in the sheet and its cell is never read.               *)
(***************************************************************************)
Apps == {"quant", "test1", "stlt"}

\* the required numeric columns of clean_excel
ScoreCols ==
    <<"score_1_response", "score_2_response", "score_1_average", "score_2_average">>

\* the filter columns the modelled sheets carry, in the order of filter_cols
\* (quant_scoring_reckoner.py passes over a column the sheet lacks; the
\* selections of test1.py on the other columns stay empty)
filter_cols(a) == <<"project_code", "score_type">>

T_Output == Text(<<"O", "u", "t", "p", "u", "t">>)
T_Outcome == Text(<<"O", "u", "t", "c", "o", "m", "e">>)
T_Impact == Text(<<"I", "m", "p", "a", "c", "t">>)
T_Effectiveness ==
    Text(<<"E", "f", "f", "e", "c", "t", "i", "v", "e", "n", "e", "s", "s">>)
T_abc == Text(<<"a", "b", "c">>)

SheetRow(p, st, r1, r2, a1, a2) ==
    [project_code |-> p, score_type |-> st,
     score_1_response |-> r1, score_2_response |-> r2,
     score_1_average |-> a1, score_2_average |-> a2,
     response_count |-> Null, average |-> Null]

\* rows of the indicator_analysis_table sheet
IndicatorRows ==
    { SheetRow(Text(<<"a">>), T_Output,
               Text(<<"1", "0">>), Null, Text(<<"4">>), Null),
      SheetRow(Text(<<" ", "A">>), T_Output,
               Text(<<"2", "0">>), Null, Text(<<"6">>), Null),
      SheetRow(Text(<<"B">>), T_Impact,
               T_abc, Text(<<"3">>), Text(<<"5">>), IntCell(2)),
      SheetRow(Text(<<"B">>), Null,
               Text(<<"-", "3">>), T_abc, Text(<<"1">>), Text(<<"n", "/", "a">>)),
      SheetRow(Null, T_Outcome,
               Text(<<"2", ".", "5">>), IntCell(1), FloatCell(45), IntCell(2)),
      SheetRow(Text(<<"B">>), T_Output,
               Null, T_abc, Null, Text(<<"-">>)),
      SheetRow(Text(<<"a">>), T_Output,
               Text(<<"1">>), IntCell(1), FloatCell(4), Text(<<"0", ".", "4">>)) }

ShortTermRow(p, st, rc, av) ==
    [project_code |-> p, score_type |-> st,
     score_1_response |-> Null, score_2_response |-> Null,
     score_1_average |-> Null, score_2_average |-> Null,
     response_count |-> rc, average |-> av]

\* rows of the short_term_long_term sheet
ShortTermRows ==
    { ShortTermRow(Text(<<"a">>), Text(<<"o", "u", "t", "p", "u", "t">>),
                   Text(<<"1", "0">>), Text(<<"4">>)),
      ShortTermRow(Null, Text(<<"I", "M", "P", "A", "C", "T">>),
                   IntCell(7), FloatCell(25)),
      ShortTermRow(Text(<<"B", " ">>), Null,
                   Text(<<"1", ",", "2", "3", "4">>), T_abc),
      ShortTermRow(Text(<<"b">>), T_Output, Null, Null) }

RECURSIVE SeqsOfLen(_, _)
SeqsOfLen(S, n) ==
    IF n = 0 THEN {<<>>}
    ELSE {Append(q, x) : q \in SeqsOfLen(S, n - 1), x \in S}

SeqsUpTo(S, n) == UNION {SeqsOfLen(S, k) : k \in 0..n}

(***************************************************************************)
(* clean_excel: the loaded table.  A float column holds NaN where the      *)
(* extractor gave None.                                                    *)
(***************************************************************************)
\* project_code: astype(str).str.strip().str.upper()
NormProject(c) == Text(upper(strip(str(c))))

\* what Series.apply makes of an extracted value
AsFloat(v) == IF v = None THEN NaN ELSE v

\* a clean_excel that leaves the cells of a column the sheet lacks to the
\* extractor: all absent, in both scripts
NumCell_absent(a, miss, row, col) ==
    IF col # miss THEN AsFloat(extract_number_keep_none(row[col])) ELSE NaN

\* the column col + "_num" of one row (quant_scoring_reckoner.py fills a
\* column the sheet lacks with 0, test1.py with pd.NA)
NumCell(a, miss, row, col) ==
    IF col # miss THEN AsFloat(extract_number_keep_none(row[col]))
    ELSE IF a = "quant" THEN Zero ELSE NaN

LoadedRow(a, miss, row, i) ==
    [idx |-> i,
     project_code |-> NormProject(row.project_code),
     score_type |-> IF miss = "score_type" THEN Null ELSE row.score_type,
     score_1_response_num |-> NumCell(a, miss, row, "score_1_response"),
     score_2_response_num |-> NumCell(a, miss, row, "score_2_response"),
     score_1_average_num |-> NumCell(a, miss, row, "score_1_average"),
     score_2_average_num |-> NumCell(a, miss, row, "score_2_average")]

clean_excel(a, miss, sh) ==
    [i \in 1..Len(sh) |-> LoadedRow(a, miss, sh[i], i)]

\* pd.to_numeric(cell, errors="coerce")
to_numeric(c) ==
    CASE c.kind = "int" -> <<c.n, 1>>
      [] c.kind = "float" -> Rat(c.n, 10)
      [] c.kind = "str" ->
            (LET f == float(strip(c.t)) IN IF f.ok THEN f.v ELSE NaN)
      [] OTHER -> NaN

\* the text columns of the short-term page: astype(str).str.strip().str.title()
NormTitle(c) == Text(title(strip(str(c))))

ShortTermLoadedRow(miss, row, i) ==
    [idx |-> i,
     project_code |-> NormTitle(row.project_code),
     score_type |-> IF miss = "score_type" THEN Null
                    ELSE NormTitle(row.score_type),
     response_count |-> to_numeric(row.response_count),
     average |-> to_numeric(row.average)]

load_short_term_long_term(miss, sh) ==
    [i \in 1..Len(sh) |-> ShortTermLoadedRow(miss, sh[i], i)]

\* the loader of each script
load(a, miss, sh) ==
    IF a = "stlt" THEN load_short_term_long_term(miss, sh)
    ELSE clean_excel(a, miss, sh)

\* df.columns
columns(a, miss) ==
    {"project_code", "score_type"} \ {miss}

(***************************************************************************)
(* Column reductions of pandas.                                            *)
(***************************************************************************)
\* a sum that stops one row short of the end of the column
RECURSIVE sum_without_last(_, _)
sum_without_last(df, col) ==
    IF Len(df) <= 1 THEN Zero
    ELSE LET x == Head(df)[col]
         IN IF IsNaN(x) THEN sum_without_last(Tail(df), col)
            ELSE RAdd(x, sum_without_last(Tail(df), col))

\* Series.sum(): NaN is skipped
RECURSIVE sum(_, _)
sum(df, col) ==
    IF df = <<>> THEN Zero
    ELSE LET x == Head(df)[col]
         IN IF IsNaN(x) THEN sum(Tail(df), col) ELSE RAdd(x, sum(Tail(df), col))

\* Series.count(): the cells that are not NaN
count(df, col) == Cardinality({k \in 1..Len(df) : ~IsNaN(df[k][col])})

\* a mean that counts NaN as 0: the sum over the number of rows
mean_over_all_rows(df, col) ==
    IF df = <<>> THEN NaN ELSE RDiv(sum(df, col), <<Len(df), 1>>)

\* Series.mean(): NaN is skipped; NaN when nothing is left
mean(df, col) ==
    IF count(df, col) = 0 THEN NaN
    ELSE RDiv(sum(df, col), <<count(df, col), 1>>)

\* the quotient without its test: x / 0 is no number
quotient_unguarded(total_weight, total_responses) ==
    IF total_responses = Zero THEN NaN ELSE RDiv(total_weight, total_responses)

\* total_weight / total_responses if total_responses else 0
quotient_or_zero(total_weight, total_responses) ==
    IF Truthy(total_responses) THEN RDiv(total_weight, total_responses) ELSE Zero

\* the key of the first row alone
unique_of_head(df, col) ==
    IF df = <<>> \/ isna(df[1][col]) THEN {} ELSE {df[1][col]}

\* df[col].dropna().unique(), as a set
unique(df, col) == {df[k][col] : k \in {j \in 1..Len(df) : ~isna(df[j][col])}}

\* int(round(x)): ValueError on NaN, shown here as NaN
IntRound(x) == IF IsNaN(x) THEN NaN ELSE <<RoundHalfEven(x), 1>>

(***************************************************************************)
(* quant_scoring_reckoner.py: excel_style_calculations.                    *)
(***************************************************************************)
NoKey == <<>>

\* excel_style_calculations after its test of df.empty
excel_style_metrics(df) ==
    LET s1r == sum(df, "score_1_response_num")
        s2r == sum(df, "score_2_response_num")
        a1 == mean(df, "score_1_average_num")
        a2 == mean(df, "score_2_average_num")
        s1w == RMul(a1, s1r)
        s2w == RMul(a2, s2r)
        total_responses == RAdd(s1r, s2r)
        total_weight == RAdd(s1w, s2w)
        total_score == quotient_or_zero(total_weight, total_responses)
        raises == IsNaN(s1w) \/ IsNaN(s2w) \/ IsNaN(total_weight)
        g == [project_code |-> NoKey, Row_Count |-> Len(df),
              s1r |-> s1r, s2r |-> s2r, a1 |-> a1, a2 |-> a2,
              s1w |-> s1w, s2w |-> s2w,
              total_responses |-> total_responses,
              total_weight |-> total_weight, total_score |-> total_score,
              out |-> [Total_Responses |-> <<Trunc(total_responses), 1>>,
                       a1 |-> Round2(a1), a2 |-> Round2(a2),
                       Score1_averageXsum |-> IntRound(s1w),
                       Score2_averageXsum |-> IntRound(s2w),
                       total_weight |-> IntRound(total_weight),
                       total_score |-> Round2(total_score)]]
    IN [ret |-> IF raises THEN "ValueError" ELSE "dict", groups |-> <<g>>]

\* excel_style_calculations without its test of df.empty
excel_style_no_empty_test(df) == excel_style_metrics(df)

excel_style_calculations(df) ==
    IF df = <<>> THEN [ret |-> "None", groups |-> <<>>]
    ELSE excel_style_metrics(df)

(***************************************************************************)
(* test1.py: calculate_project_metrics, after its filtering.               *)
(***************************************************************************)
\* ord(c) of the characters that occur
ord(c) ==
    CASE c = " " -> 32
      [] c = "," -> 44
      [] c = "-" -> 45
      [] c = "." -> 46
      [] c = "/" -> 47
      [] c \in Digit -> 48 + DigitVal(c)
      [] c = ":" -> 58
      [] IsUpper(c) -> 64 + (CHOOSE k \in 1..26 : UpperCase[k] = c)
      [] IsLower(c) -> 96 + (CHOOSE k \in 1..26 : LowerCase[k] = c)
      [] OTHER -> 127

\* t < u for str
RECURSIVE str_lt(_, _)
str_lt(t, u) ==
    IF u = <<>> THEN FALSE
    ELSE IF t = <<>> THEN TRUE
    ELSE IF Head(t) # Head(u) THEN ord(Head(t)) < ord(Head(u))
    ELSE str_lt(Tail(t), Tail(u))

\* sorted(S) for a set of text cells
RECURSIVE sorted(_)
sorted(S) ==
    IF S = {} THEN <<>>
    ELSE LET m == CHOOSE x \in S : \A y \in S \ {x} : str_lt(x.t, y.t)
         IN <<m>> \o sorted(S \ {m})

\* avg or 0.0
or_zero(x) == IF Truthy(x) THEN x ELSE Zero

\* one turn of the loop over the projects
project_metrics(df, project) ==
    LET dproj == SelectSeq(df, LAMBDA r : r.project_code = project)
        sum_score_1_response == sum(dproj, "score_1_response_num")
        sum_score_2_response == sum(dproj, "score_2_response_num")
        avg_score_1_average == mean(dproj, "score_1_average_num")
        avg_score_2_average == mean(dproj, "score_2_average_num")
        score1_averageXsum == RMul(or_zero(avg_score_1_average), sum_score_1_response)
        score2_averageXsum == RMul(or_zero(avg_score_2_average), sum_score_2_response)
        total_responses == RAdd(sum_score_1_response, sum_score_2_response)
        total_weight == RAdd(score1_averageXsum, score2_averageXsum)
        total_score == quotient_or_zero(total_weight, total_responses)
    IN [project_code |-> project, Row_Count |-> Len(dproj),
        s1r |-> sum_score_1_response, s2r |-> sum_score_2_response,
        a1 |-> avg_score_1_average, a2 |-> avg_score_2_average,
        s1w |-> score1_averageXsum, s2w |-> score2_averageXsum,
        total_responses |-> total_responses,
        total_weight |-> total_weight, total_score |-> total_score,
        out |-> [Total_Responses |-> <<Trunc(total_responses), 1>>,
                 a1 |-> Round2(avg_score_1_average),
                 a2 |-> Round2(avg_score_2_average),
                 Score1_averageXsum |-> IntRound(score1_averageXsum),
                 Score2_averageXsum |-> IntRound(score2_averageXsum),
                 total_weight |-> IntRound(total_weight),
                 total_score |-> Round2(total_score)]]

\* round(x) of a NaN raises in this turn
RoundsNaN(g) == IsNaN(g.s1w) \/ IsNaN(g.s2w) \/ IsNaN(g.total_weight)

\* the turns of the loop that run: all of them, or, when round() raises on
\* NaN (strict), those up to the first that rounds a NaN
RECURSIVE project_loop(_, _, _)
project_loop(df, projects, strict) ==
    IF projects = <<>> THEN <<>>
    ELSE LET g == project_metrics(df, Head(projects))
         IN IF strict /\ RoundsNaN(g) THEN <<g>>
            ELSE <<g>> \o project_loop(df, Tail(projects), strict)

\* calculate_project_metrics on the table its filters left.  round() of a
\* numpy NaN raises ValueError or gives NaN, by the numpy installed: strict
\* says which.
calculate_project_metrics(df, strict) ==
    LET projects == sorted(unique(df, "project_code"))
        results == project_loop(df, projects, strict)
        raised == strict /\ \E k \in 1..Len(results) : RoundsNaN(results[k])
    IN [ret |-> IF raised THEN "ValueError" ELSE "DataFrame",
        groups |-> results]

(***************************************************************************)
(* pages/short_term_long_term.py: calculate_short_term_metrics.            *)
(***************************************************************************)
calculate_short_term_metrics(df) ==
    IF df = <<>> THEN [ret |-> "None", groups |-> <<>>]
    ELSE
    LET total_responses == sum(df, "response_count")
        avg_score == mean(df, "average")
    IN [ret |-> "dict",
        groups |-> << [project_code |-> NoKey, Row_Count |-> Len(df),
                       total_responses |-> total_responses,
                       avg_score |-> avg_score,
                       out |-> [Total_Responses |-> <<Trunc(total_responses), 1>>,
                                Average_Score |-> Round2(avg_score)]] >>]

(***************************************************************************)
(* The sidebar filters.                                                    *)
(***************************************************************************)
\* the options of the multiselect of col on the Quant Scoring Reckoner page
quant_options(df, col) ==
    IF col = "score_type" THEN unique(df, col) \ {T_Impact, T_Effectiveness}
    ELSE unique(df, col)

\* a filter that also fills the absent response counts of the rows it keeps
isin_rows_filled(fdf, col, sel) ==
    LET kept == SelectSeq(fdf, LAMBDA r : r[col] \in sel)
    IN [k \in 1..Len(kept) |->
          IF "score_1_response_num" \in DOMAIN kept[k]
          THEN [kept[k] EXCEPT
                  !.score_1_response_num = IF IsNaN(@) THEN Zero ELSE @,
                  !.score_2_response_num = IF IsNaN(@) THEN Zero ELSE @]
          ELSE [kept[k] EXCEPT
                  !.response_count = IF IsNaN(@) THEN Zero ELSE @]]

\* filtered_df[filtered_df[col].isin(sel)]
isin_rows(fdf, col, sel) == SelectSeq(fdf, LAMBDA r : r[col] \in sel)

\* the filter loop of the Quant Scoring Reckoner page, from column k on
RECURSIVE quant_filter(_, _, _, _, _)
quant_filter(df, cols, sel, fdf, k) ==
    IF k > Len(filter_cols("quant")) THEN fdf
    ELSE LET col == filter_cols("quant")[k]
         IN IF col \in cols
               /\ Cardinality(sel[col]) # Cardinality(quant_options(df, col))
            THEN quant_filter(df, cols, sel, isin_rows(fdf, col, sel[col]), k + 1)
            ELSE quant_filter(df, cols, sel, fdf, k + 1)

\* the filtering of calculate_project_metrics, from column k on: an empty
\* selection does not filter
RECURSIVE test1_filter(_, _, _, _)
test1_filter(cols, sel, fdf, k) ==
    IF k > Len(filter_cols("test1")) THEN fdf
    ELSE LET key == filter_cols("test1")[k]
         IN IF sel[key] # {} /\ key \in cols
            THEN test1_filter(cols, sel, isin_rows(fdf, key, sel[key]), k + 1)
            ELSE test1_filter(cols, sel, fdf, k + 1)

\* the filter loop of the short-term page, from column k on: every column
\* the table has is filtered
RECURSIVE stlt_filter(_, _, _, _)
stlt_filter(cols, sel, fdf, k) ==
    IF k > Len(filter_cols("stlt")) THEN fdf
    ELSE LET col == filter_cols("stlt")[k]
         IN IF col \in cols
            THEN stlt_filter(cols, sel, isin_rows(fdf, col, sel[col]), k + 1)
            ELSE stlt_filter(cols, sel, fdf, k + 1)

\* the options a multiselect offers
options(a, df, cols, col) ==
    IF col \notin cols THEN {}
    ELSE IF a = "quant" THEN quant_options(df, col)
    ELSE unique(df, col)

\* the selection a multiselect starts with
default(a, df, cols, col) ==
    IF a = "test1" THEN {} ELSE options(a, df, cols, col)

FilterColSet == {"project_code", "score_type"}

(***************************************************************************)
(* The pages.  Streamlit runs the script from the top on every change of a *)
(* widget; the loaded table is cached.                                     *)
(***************************************************************************)
\* the column the sheet may lack.  The short-term page reads response_count
\* and average without a test, so its sheet has them.
MissingChoices(a) ==
    IF a = "stlt" THEN {"none", "score_type"}
    ELSE {"none", "score_type", "score_1_response", "score_2_response",
          "score_1_average", "score_2_average"}

Sheets(a) ==
    IF a = "stlt" THEN SeqsUpTo(ShortTermRows, MaxRows)
    ELSE SeqsUpTo(IndicatorRows, MaxRows)

Unset == [ret |-> "unset", groups |-> <<>>]

Init ==
    /\ pc = "start"
    /\ app \in Apps
    /\ sheet \in Sheets(app)
    /\ missing \in MissingChoices(app)
    /\ df_main = <<>>
    /\ selected = [c \in FilterColSet |-> {}]
    /\ filtered_df = <<>>
    /\ calc = Unset
    /\ obj = Null
    /\ s = <<>>
    /\ nums = <<>>
    /\ ret = None

\* st.stop(): the loaded table is empty, the script ends before its widgets
Stop ==
    /\ pc' = "stopped"
    /\ UNCHANGED <<selected, filtered_df, calc>>

\* what a run of a script that reaches its end leaves on the page
Render(sel, fdf, result) ==
    /\ pc' = "shown"
    /\ selected' = sel
    /\ filtered_df' = fdf
    /\ calc' = result

\* the selection after the user adds or removes option v of the multiselect
\* of col
Toggle(col, v) ==
    [selected EXCEPT ![col] = IF v \in @ THEN @ \ {v} ELSE @ \cup {v}]

\* the first run of quant_scoring_reckoner.py: the table is loaded, filtered
\* by the default selections (every option) and aggregated
quant_run ==
    /\ pc = "start"
    /\ app = "quant"
    /\ \E df \in {load("quant", missing, sheet)} :
         \E sel \in {[c \in FilterColSet |->
                        default("quant", df, columns("quant", missing), c)]} :
            /\ df_main' = df
            /\ IF df = <<>> THEN Stop
               ELSE \E fdf \in {quant_filter(df, columns("quant", missing), sel, df, 1)} :
                       Render(sel, fdf, excel_style_calculations(fdf))
    /\ UNCHANGED <<app, sheet, missing, extractVars>>

\* a change of the multiselect of col: quant_scoring_reckoner.py runs again
\* on the cached table
quant_select(col, v) ==
    /\ pc = "shown"
    /\ app = "quant"
    /\ \E sel \in {Toggle(col, v)} :
         \E fdf \in {quant_filter(df_main, columns("quant", missing), sel, df_main, 1)} :
            Render(sel, fdf, excel_style_calculations(fdf))
    /\ UNCHANGED <<app, sheet, missing, df_main, extractVars>>

\* the first run of test1.py: nothing is selected; the script reads
\* df['score_type'] for its multiselect and dies of KeyError without the
\* column
test1_run(strict) ==
    /\ pc = "start"
    /\ app = "test1"
    /\ \E df \in {load("test1", missing, sheet)} :
         \E sel \in {[c \in FilterColSet |->
                        default("test1", df, columns("test1", missing), c)]} :
            /\ df_main' = df
            /\ IF df = <<>> THEN Stop
               ELSE IF "score_type" \notin columns("test1", missing)
               THEN /\ pc' = "KeyError"
                    /\ UNCHANGED <<selected, filtered_df, calc>>
               ELSE \E fdf \in {test1_filter(columns("test1", missing), sel, df, 1)} :
                       Render(sel, fdf, calculate_project_metrics(fdf, strict))
    /\ UNCHANGED <<app, sheet, missing, extractVars>>

\* a change of a multiselect of test1.py
test1_select(col, v, strict) ==
    /\ pc = "shown"
    /\ app = "test1"
    /\ \E sel \in {Toggle(col, v)} :
         \E fdf \in {test1_filter(columns("test1", missing), sel, df_main, 1)} :
            Render(sel, fdf, calculate_project_metrics(fdf, strict))
    /\ UNCHANGED <<app, sheet, missing, df_main, extractVars>>

\* the first run of pages/short_term_long_term.py
stlt_run ==
    /\ pc = "start"
    /\ app = "stlt"
    /\ \E df \in {load("stlt", missing, sheet)} :
         \E sel \in {[c \in FilterColSet |->
                        default("stlt", df, columns("stlt", missing), c)]} :
            /\ df_main' = df
            /\ IF df = <<>> THEN Stop
               ELSE \E fdf \in {stlt_filter(columns("stlt", missing), sel, df, 1)} :
                       Render(sel, fdf, calculate_short_term_metrics(fdf))
    /\ UNCHANGED <<app, sheet, missing, extractVars>>

\* a change of a multiselect of pages/short_term_long_term.py
stlt_select(col, v) ==
    /\ pc = "shown"
    /\ app = "stlt"
    /\ \E sel \in {Toggle(col, v)} :
         \E fdf \in {stlt_filter(columns("stlt", missing), sel, df_main, 1)} :
            Render(sel, fdf, calculate_short_term_metrics(fdf))
    /\ UNCHANGED <<app, sheet, missing, df_main, extractVars>>

Next ==
    \/ quant_run
    \/ \E col \in FilterColSet :
         \E v \in options("quant", df_main, columns("quant", missing), col) :
            quant_select(col, v)
    \/ \E strict \in BOOLEAN : test1_run(strict)
    \/ \E col \in FilterColSet, strict \in BOOLEAN :
         \E v \in options("test1", df_main, columns("test1", missing), col) :
            test1_select(col, v, strict)
    \/ stlt_run
    \/ \E col \in FilterColSet :
         \E v \in options("stlt", df_main, columns("stlt", missing), col) :
            stlt_select(col, v)

Spec == Init /\ [][Next]_vars

(***************************************************************************)
(* Reading a token or a text as a decimal number, digit by digit.          *)
(***************************************************************************)
DigitsOf(t) == SelectSeq(t, LAMBDA c : c \in Digit)

FracLen(t) ==
    LET dots == {k \in 1..Len(t) : t[k] = "."}
    IN IF dots = {} THEN 0
       ELSE Len(DigitsOf(SubSeq(t, (CHOOSE k \in dots : TRUE) + 1, Len(t))))

DecimalValue(t) ==
    LET m == DigitsToNat(DigitsOf(t))
    IN Rat(IF t[1] = "-" THEN -m ELSE m, Pow10(FracLen(t)))

HasDigit(t) == \E k \in 1..Len(t) : t[k] \in Digit

LastDigitPos(t) == CHOOSE k \in 1..Len(t) :
    t[k] \in Digit /\ \A j \in (k + 1)..Len(t) : t[j] \notin Digit

\* -?\d+(\.\d+)? and nothing else
IsPlainNumber(t) ==
    LET u == IF t # <<>> /\ Head(t) = "-" THEN Tail(t) ELSE t
        dots == {k \in 1..Len(u) : u[k] = "."}
    IN /\ u # <<>>
       /\ \A k \in 1..Len(u) : u[k] \in Digit \cup {"."}
       /\ Cardinality(dots) <= 1
       /\ \A k \in dots : k > 1 /\ k < Len(u)

Extracted == pc = "extracted"

(***************************************************************************)
(* C1: for a non-null cell whose text holds a numeric token, the extractor *)
(* returns the value of the last token found, commas removed: the token    *)
(* that ends at the last digit of the text, never an earlier one.          *)
(***************************************************************************)
C1_LastToken ==
    (Extracted /\ ~isna(obj) /\ nums # <<>>) =>
        LET last == nums[Len(nums)]
            e == LastDigitPos(s)
        IN /\ ret = DecimalValue(last)
           /\ Len(last) <= e
           /\ SubSeq(s, e - Len(last) + 1, e) = last
           /\ (obj = Text(<<"v", "a", "l", ":", " ", "5", ",", " ", "f", "i",
                           "n", "a", "l", ":", " ", "-", "2", ".", "5">>)
                 => ret = <<-5, 2>>)
           /\ (obj = Text(<<"1", "2", " ", "o", "u", "t", " ", "o", "f", " ",
                           "1", "0", "0", ",", " ", "f", "i", "n", "a", "l",
                           ":", " ", "8", "7">>)
                 => ret = <<87, 1>>)
           /\ (obj = Text(<<"1", ",", "2", "3", "4">>) => ret = <<1234, 1>>)

C1_Witness ==
    /\ Extracted
    /\ Len(nums) = 2
    /\ nums[1] = <<"5">>
    /\ ret = <<-5, 2>>

(***************************************************************************)
(* C2: the extractor returns None exactly when the cell is null or its     *)
(* text holds no digit; the number 0 and the text "0" give 0.0, not None.  *)
(***************************************************************************)
C2_NoneIffNoDigit ==
    Extracted =>
        /\ (ret = None) <=> (isna(obj) \/ ~HasDigit(str(obj)))
        /\ ret # None => IsNum(ret)
        /\ obj \in {IntCell(0), Text(<<"0">>)} => ret = <<0, 1>>

C2_Witness == Extracted /\ obj = IntCell(0) /\ ret = <<0, 1>>

(***************************************************************************)
(* C3: a cell whose text is exactly one plain number without thousands     *)
(* grouping, of any length, gives the value of that whole number.          *)
(***************************************************************************)
C3_PlainNumberWhole ==
    (Extracted /\ ~isna(obj) /\ IsPlainNumber(s)) => ret = DecimalValue(s)

(***************************************************************************)
(* The groups of an aggregation and their rows, summed by hand.            *)
(***************************************************************************)
Weighted == app \in {"quant", "test1"}

Shown == pc = "shown"

\* a result was returned: a dict, or a table of one row per project
Returned == calc.ret \in {"dict", "DataFrame"}

GroupIds == 1..Len(calc.groups)

\* the rows of filtered_df that group k was computed from
GroupRows(k) ==
    IF app = "test1"
    THEN SelectSeq(filtered_df,
                   LAMBDA r : r.project_code = calc.groups[k].project_code)
    ELSE filtered_df

Present(rows, col) == {i \in 1..Len(rows) : rows[i][col] # NaN}

RECURSIVE DenProduct(_, _, _)
DenProduct(rows, col, I) ==
    IF I = {} THEN 1
    ELSE LET i == CHOOSE j \in I : TRUE
         IN rows[i][col][2] * DenProduct(rows, col, I \ {i})

RECURSIVE NumSum(_, _, _, _)
NumSum(rows, col, I, D) ==
    IF I = {} THEN 0
    ELSE LET i == CHOOSE j \in I : TRUE
         IN rows[i][col][1] * (D \div rows[i][col][2])
                + NumSum(rows, col, I \ {i}, D)

\* the sum of the present values of col, absent ones counting 0, as <<n, d>>
\* not reduced
HandSum(rows, col) ==
    LET I == Present(rows, col)
        D == DenProduct(rows, col, I)
    IN <<NumSum(rows, col, I, D), D>>

\* x = n / d for a float x
EqualsFraction(x, n, d) == IsNum(x) /\ x[1] * d = n * x[2]

\* the sum of both response columns over rows, as <<n, d>> not reduced
HandResponses(rows) ==
    LET r1 == HandSum(rows, "score_1_response_num")
        r2 == HandSum(rows, "score_2_response_num")
    IN <<r1[1] * r2[2] + r2[1] * r1[2], r1[2] * r2[2]>>

\* the integer m is n / d cut toward zero
IsTruncation(m, n, d) ==
    IF n >= 0 THEN m * d <= n /\ n < (m + 1) * d
    ELSE (m - 1) * d < n /\ n <= m * d

(***************************************************************************)
(* C4 as claimed: the reported total_responses of every group equals the   *)
(* sum of its extracted score_1_response values plus the sum of its        *)
(* extracted score_2_response values, absent values counting 0.            *)
(***************************************************************************)
C4_ReportedIsSum ==
    (Shown /\ Weighted /\ Returned) =>
        \A k \in GroupIds :
            LET h == HandResponses(GroupRows(k))
            IN EqualsFraction(calc.groups[k].out.Total_Responses, h[1], h[2])

(***************************************************************************)
(* C4 amended: the total_responses of every group is that sum, absent      *)
(* values counting 0; what is reported is the sum cut toward zero to an    *)
(* integer; and the aggregation raises only where a mean is undefined,     *)
(* never for a response count.                                             *)
(***************************************************************************)
C4_ReportedIsTruncatedSum ==
    (Shown /\ Weighted) =>
        /\ \A k \in GroupIds :
              LET h == HandResponses(GroupRows(k))
                  g == calc.groups[k]
              IN /\ EqualsFraction(g.total_responses, h[1], h[2])
                 /\ g.out.Total_Responses[2] = 1
                 /\ IsTruncation(g.out.Total_Responses[1], h[1], h[2])
        /\ calc.ret = "ValueError" =>
              \E k \in GroupIds :
                  \/ Present(GroupRows(k), "score_1_average_num") = {}
                  \/ Present(GroupRows(k), "score_2_average_num") = {}

\* a fractional response count beside an unparseable one, and a result
C4_Witness ==
    /\ Shown /\ Weighted /\ Returned
    /\ \E k \in GroupIds :
          /\ calc.groups[k].total_responses = <<7, 2>>
          /\ calc.groups[k].out.Total_Responses = <<3, 1>>
          /\ \E i \in 1..Len(GroupRows(k)) :
                GroupRows(k)[i].score_1_response_num = NaN

(***************************************************************************)
(* C5: a1 and a2 of every group are the means of score_1_average and       *)
(* score_2_average over the rows of the group where that field is present; *)
(* a row's absent response count does not take its average out.            *)
(***************************************************************************)
MeanOfPresent(x, rows, col) ==
    LET I == Present(rows, col)
        h == HandSum(rows, col)
    IN IF I = {} THEN IsNaN(x)
       ELSE EqualsFraction(x, h[1], h[2] * Cardinality(I))

C5_MeanOfPresent ==
    (Shown /\ Weighted) =>
        \A k \in GroupIds :
            /\ MeanOfPresent(calc.groups[k].a1, GroupRows(k), "score_1_average_num")
            /\ MeanOfPresent(calc.groups[k].a2, GroupRows(k), "score_2_average_num")

\* a group of two rows, one without score_1_average, the other with it and
\* without a parseable score_1_response: a1 is the average of that row
C5_Witness ==
    /\ Shown /\ Weighted
    /\ \E k \in GroupIds :
          LET rows == GroupRows(k)
          IN /\ Len(rows) = 2
             /\ Cardinality(Present(rows, "score_1_average_num")) = 1
             /\ \E i \in Present(rows, "score_1_average_num") :
                   /\ rows[i].score_1_response_num = NaN
                   /\ calc.groups[k].a1 = rows[i].score_1_average_num

(***************************************************************************)
(* C6: when every row of a group lacks score_2_average and                 *)
(* score_2_response and has the score_1 fields, the aggregation completes  *)
(* without error, score2_weighted adds 0, total_weight is a1 * s1r and     *)
(* total_score is total_weight / total_responses, a number.                *)
(***************************************************************************)
SecondTrackAbsent(rows) ==
    /\ rows # <<>>
    /\ \A i \in 1..Len(rows) :
          /\ rows[i].score_2_average_num = NaN
          /\ rows[i].score_2_response_num = NaN
          /\ rows[i].score_1_average_num # NaN
          /\ rows[i].score_1_response_num # NaN

C6_AbsentTrackAddsNothing ==
    (Shown /\ Weighted) =>
        /\ SecondTrackAbsent(filtered_df) => Returned
        /\ \A k \in GroupIds :
              SecondTrackAbsent(GroupRows(k)) =>
                  LET g == calc.groups[k]
                      m == HandSum(GroupRows(k), "score_1_average_num")
                      r == HandSum(GroupRows(k), "score_1_response_num")
                      n == Len(GroupRows(k))
                  IN /\ EqualsFraction(g.total_weight,
                                       m[1] * r[1], m[2] * n * r[2])
                     /\ g.total_weight = g.s1w
                     /\ IsNum(g.total_score)

(***************************************************************************)
(* C7: for every group total_score is total_weight / total_responses when  *)
(* total_responses is not zero and 0 when it is zero, whether the response *)
(* sums cancel or are all absent; the zero denominator is no error.        *)
(***************************************************************************)
C7_ZeroDenominator ==
    (Shown /\ Weighted) =>
        /\ \A k \in GroupIds :
              LET g == calc.groups[k]
                  h == HandResponses(GroupRows(k))
              IN /\ h[1] = 0 =>
                      /\ g.total_score = <<0, 1>>
                      /\ g.out.total_score = <<0, 1>>
                 /\ (h[1] # 0 /\ IsNum(g.total_weight)) =>
                      EqualsFraction(g.total_score,
                                     g.total_weight[1] * h[2],
                                     g.total_weight[2] * h[1])
                 /\ (h[1] # 0 /\ ~IsNum(g.total_weight)) => IsNaN(g.total_score)
        /\ calc.ret = "ValueError" =>
              \E k \in GroupIds : ~IsNum(calc.groups[k].total_weight)

\* response sums that cancel, beside a weight that is not zero
C7_Witness ==
    /\ Shown /\ Weighted /\ Returned
    /\ \E k \in GroupIds :
          /\ calc.groups[k].s1r = <<-3, 1>>
          /\ calc.groups[k].s2r = <<3, 1>>
          /\ calc.groups[k].total_weight # <<0, 1>>
          /\ calc.groups[k].out.total_score = <<0, 1>>

(***************************************************************************)
(* C8 as claimed: aggregating an empty row set returns a result whose      *)
(* total_responses is 0 and whose total_score is 0, the means undefined.   *)
(***************************************************************************)
C8_EmptyGivesZeroResult ==
    (Shown /\ Weighted /\ filtered_df = <<>>) =>
        /\ Returned
        /\ Len(calc.groups) = 1
        /\ calc.groups[1].out.Total_Responses = <<0, 1>>
        /\ calc.groups[1].out.total_score = <<0, 1>>
        /\ IsNaN(calc.groups[1].out.a1)
        /\ IsNaN(calc.groups[1].out.a2)

(***************************************************************************)
(* C8 amended: aggregating an empty row set never raises and reports no    *)
(* metrics: excel_style_calculations and calculate_short_term_metrics      *)
(* return None, calculate_project_metrics a table without rows.            *)
(***************************************************************************)
C8_EmptyGivesNothing ==
    (Shown /\ filtered_df = <<>>) =>
        /\ calc.groups = <<>>
        /\ calc.ret = (IF app = "test1" THEN "DataFrame" ELSE "None")

C8_Witness ==
    /\ Shown /\ app = "quant"
    /\ df_main # <<>> /\ filtered_df = <<>>
    /\ calc.ret = "None"

(***************************************************************************)
(* C9 as claimed: with one of the four required columns missing from the   *)
(* sheet, loading and aggregating fails with a missing-field condition and *)
(* gives no metrics; no default column is put in its place.                *)
(***************************************************************************)
RequiredMissing ==
    missing \in {ScoreCols[k] : k \in 1..Len(ScoreCols)}

NumName(col) ==
    CASE col = "score_1_response" -> "score_1_response_num"
      [] col = "score_2_response" -> "score_2_response_num"
      [] col = "score_1_average" -> "score_1_average_num"
      [] col = "score_2_average" -> "score_2_average_num"

C9_MissingFieldFails ==
    (pc # "start" /\ Weighted /\ RequiredMissing /\ sheet # <<>>) =>
        /\ pc = "MissingField"
        /\ calc = Unset

(***************************************************************************)
(* C9 amended: with one of the four required columns missing, nothing      *)
(* fails for it: clean_excel puts a default column in its place, 0 in      *)
(* quant_scoring_reckoner.py and absent in test1.py, and the table is      *)
(* aggregated with it; in quant_scoring_reckoner.py the mean of such a     *)
(* column is 0, not undefined as for a column of absent cells.             *)
(***************************************************************************)
C9_MissingFieldDefaulted ==
    (pc # "start" /\ Weighted /\ RequiredMissing /\ sheet # <<>>) =>
        /\ pc = "shown"
        /\ calc # Unset
        /\ \A i \in 1..Len(df_main) :
              df_main[i][NumName(missing)] =
                  (IF app = "quant" THEN <<0, 1>> ELSE NaN)
        /\ (app = "quant" /\ missing = "score_2_average") =>
              \A k \in GroupIds : calc.groups[k].a2 = <<0, 1>>

\* the rows 10/4 and 20/6 of a sheet without score_2_average: 150 and 5.0
C9_Witness ==
    /\ Shown /\ app = "quant" /\ missing = "score_2_average"
    /\ calc.ret = "dict"
    /\ calc.groups[1].out.total_weight = <<150, 1>>
    /\ calc.groups[1].out.total_score = <<5, 1>>

(***************************************************************************)
(* C10: after any selections the filtered table is a sub-sequence of the   *)
(* rows of the loaded table, every row kept with all its fields as loaded, *)
(* absent ones too; the loaded table is as it was loaded.                  *)
(***************************************************************************)
C10_FilterKeepsRows ==
    Shown =>
        /\ df_main = load(app, missing, sheet)
        /\ \A k \in 1..Len(filtered_df) :
              /\ filtered_df[k].idx \in 1..Len(df_main)
              /\ filtered_df[k] = df_main[filtered_df[k].idx]
        /\ \A j, k \in 1..Len(filtered_df) :
              j < k => filtered_df[j].idx < filtered_df[k].idx

\* a selection took a row away and kept one with an absent response count
C10_Witness ==
    /\ Shown /\ Weighted
    /\ Len(filtered_df) = 1 /\ Len(df_main) = 2
    /\ filtered_df[1].idx = 2
    /\ filtered_df[1].score_1_response_num = NaN

(***************************************************************************)
(* C11: calculate_project_metrics partitions the rows its filters left by  *)
(* project_code.  Every entry it computes carries as Row_Count the number  *)
(* of rows of its key, whatever parsed in them, and no key has two         *)
(* entries; a returned table has one entry per distinct key, every row in  *)
(* exactly one of them, and its Row_Counts sum to the number of rows.      *)
(***************************************************************************)
RowsOfKey(key) ==
    {i \in 1..Len(filtered_df) : filtered_df[i].project_code = key}

RECURSIVE SumRowCounts(_)
SumRowCounts(k) ==
    IF k = 0 THEN 0 ELSE calc.groups[k].Row_Count + SumRowCounts(k - 1)

C11_GroupsPartitionRows ==
    (Shown /\ app = "test1") =>
        /\ \A k \in GroupIds :
              /\ calc.groups[k].Row_Count
                    = Cardinality(RowsOfKey(calc.groups[k].project_code))
              /\ calc.groups[k].Row_Count >= 1
        /\ \A k, l \in GroupIds :
              calc.groups[k].project_code = calc.groups[l].project_code
                  => k = l
        /\ calc.ret = "DataFrame" =>
              /\ {calc.groups[k].project_code : k \in GroupIds}
                    = {filtered_df[i].project_code : i \in 1..Len(filtered_df)}
              /\ \A i \in 1..Len(filtered_df) :
                    Cardinality({k \in GroupIds :
                                    i \in RowsOfKey(calc.groups[k].project_code)})
                        = 1
              /\ SumRowCounts(Len(calc.groups)) = Len(filtered_df)

\* two projects of one row each, one row with a response count that did
\* not parse
C11_Witness ==
    /\ Shown /\ app = "test1" /\ calc.ret = "DataFrame"
    /\ Len(filtered_df) = 2 /\ Len(calc.groups) = 2
    /\ \E i \in 1..2 : filtered_df[i].score_1_response_num = NaN
    /\ \A k \in GroupIds : calc.groups[k].Row_Count = 1

(***************************************************************************)
(* C12: rounding touches only the values put in the result.  For every     *)
(* group of a returned result whose two means are defined, the reported    *)
(* weighted terms are the roundings of mean times sum computed exactly     *)
(* from the rows, the reported total_weight is the rounding of the exact   *)
(* a1*s1r + a2*s2r, and the reported total_score is the rounding to two    *)
(* places of the exact total_weight / total_responses (0 when the          *)
(* denominator is 0).                                                      *)
(***************************************************************************)
\* fractions <<n, d>>, not reduced
FAdd(f, g) == <<f[1] * g[2] + g[1] * f[2], f[2] * g[2]>>

FMul(f, g) == <<f[1] * g[1], f[2] * g[2]>>

\* the same fraction with a positive denominator
Positive(f) == IF f[2] < 0 THEN <<-f[1], -f[2]>> ELSE f

\* the mean of the present values of col, as a fraction
HandMean(rows, col) ==
    LET h == HandSum(rows, col)
    IN <<h[1], h[2] * Cardinality(Present(rows, col))>>

HandWeight1(rows) ==
    FMul(HandMean(rows, "score_1_average_num"),
         HandSum(rows, "score_1_response_num"))

HandWeight2(rows) ==
    FMul(HandMean(rows, "score_2_average_num"),
         HandSum(rows, "score_2_response_num"))

\* the integer m is the nearest to n / d (d > 0), the even one at a tie
IsRounding(m, n, d) ==
    /\ 2 * Abs(m * d - n) <= d
    /\ 2 * Abs(m * d - n) = d => m % 2 = 0

\* the float x is a whole number, the rounding of the fraction f
IsRounded(x, f) ==
    IsNum(x) /\ x[2] = 1 /\ IsRounding(x[1], f[1], f[2])

\* the float x is a number of hundredths, the rounding of the fraction f
IsRounded2(x, f) ==
    /\ IsNum(x)
    /\ 100 % x[2] = 0
    /\ IsRounding(x[1] * (100 \div x[2]), 100 * f[1], f[2])

MeansDefined(rows) ==
    /\ Present(rows, "score_1_average_num") # {}
    /\ Present(rows, "score_2_average_num") # {}

C12_RoundingOnlyInResult ==
    (Shown /\ Weighted /\ Returned) =>
        \A k \in GroupIds :
            LET out == calc.groups[k].out
                rows == GroupRows(k)
                w1 == HandWeight1(rows)
                w2 == HandWeight2(rows)
                W == FAdd(w1, w2)
                R == HandResponses(rows)
            IN MeansDefined(rows) =>
                  /\ IsRounded(out.Score1_averageXsum, w1)
                  /\ IsRounded(out.Score2_averageXsum, w2)
                  /\ IsRounded(out.total_weight, W)
                  /\ IF R[1] = 0 THEN out.total_score = Zero
                     ELSE IsRounded2(out.total_score,
                                     Positive(<<W[1] * R[2], W[2] * R[1]>>))

\* a result whose total_weight is not the sum of its two rounded terms and
\* whose total_score is not the quotient of the rounded total_weight
C12_Witness ==
    /\ Shown /\ Weighted /\ Returned
    /\ \E k \in GroupIds :
          LET out == calc.groups[k].out
              R == HandResponses(GroupRows(k))
          IN /\ MeansDefined(GroupRows(k))
             /\ out.total_weight[1]
                   # out.Score1_averageXsum[1] + out.Score2_averageXsum[1]
             /\ R[1] > 0
             /\ ~IsRounded2(out.total_score,
                            <<out.total_weight[1] * R[2], R[1]>>)

(***************************************************************************)
(* C13 as claimed: on the Quant Scoring Reckoner page, when the selection  *)
(* is the default one less a single option v of one filter column c, the   *)
(* filtered table is the loaded table without the rows whose value in c is *)
(* v: rows with a null value in c and rows whose score_type is not offered *)
(* as an option stay.                                                      *)
(***************************************************************************)
\* the selection is the default one with option v of column c taken out
OneDeselected(c, v) ==
    /\ v \in quant_options(df_main, c)
    /\ selected[c] = quant_options(df_main, c) \ {v}
    /\ \A d \in FilterColSet \ {c} :
          d \in columns("quant", missing)
              => selected[d] = quant_options(df_main, d)

C13_DeselectRemovesOnlyValue ==
    (Shown /\ app = "quant") =>
        \A c \in columns("quant", missing) :
            \A v \in quant_options(df_main, c) :
                OneDeselected(c, v) =>
                    filtered_df = SelectSeq(df_main, LAMBDA r : r[c] # v)

====
